---- MODULE Spec2Model ----
(***************************************************************************)
(* Model of the code-judging core of codexcellence:                        *)
(*   SimpleCodeExecutor      (backend/src/services/simpleCodeExecutor.js)  *)
(*   InContainerCodeExecutor (src/unnamed/part_002)                        *)
(*   submitCode   (backend/src/controllers/submissionController.js)        *)
(* Text is a sequence of tokens; whitespace tokens are " " and "\n".       *)
(* One step of the model is one synchronous segment of the JavaScript      *)
(* code, from the resumption of an await to the next await or return.      *)
(***************************************************************************)
EXTENDS Integers, Sequences, FiniteSets, TLC

VARIABLES
    variant,        \* which executor class is instantiated
    language,       \* runTestCases argument
    testCases,      \* runTestCases argument
    pc,             \* position of runTestCases
    idx,            \* number of test cases the for-of loop has taken
    results,        \* runTestCases local `results`
    shouldContinue, \* runTestCases local (InContainerCodeExecutor only)
    summary,        \* the returned summary: <<>> until computed, then <<s>>
    exec,           \* exec[i]: the executeCode call made for test case i
    dirs,           \* execution directories existing under tempDir
    timers,         \* pending setTimeout cleanup callbacks
    rmTried,        \* directories on which fs.rm has been invoked
    rmLog,          \* directories whose removal failure was logged
    child,          \* child[i]: what the child processes of call i did
    code,           \* the submitted source text
    problem,        \* the stored statistics of the problem document
    doc,            \* submitCode's in-memory copy of the problem document
    response,       \* the HTTP response of submitCode, <<>> until sent
    reqs,           \* reqs[r]: request r in its handler (concurrent requests)
    previous        \* what the previous run of the same request returned

vars == <<variant, language, testCases, pc, idx, results, shouldContinue,
          summary, exec, dirs, timers, rmTried, rmLog, child, code, problem,
          doc, response, reqs, previous>>

-----------------------------------------------------------------------------
(* Bounds *)

MaxCases == 2

\* the number of requests handled concurrently
NumRequests == 2

-----------------------------------------------------------------------------
(* Program constants *)

EXECUTION_TIMEOUT == 5000

MAX_OUTPUT_SIZE == 10000

\* the slack InContainerCodeExecutor gives exec over the timeout command
TIMEOUT_SLACK == 1000

TIMEOUT_EXIT_CODE == 124

Variants == {"simple", "container"}

SupportedLanguages == {"javascript", "python", "java"}

Languages == SupportedLanguages \cup {"ruby"}

Whitespace == {" ", "\n"}

-----------------------------------------------------------------------------
(* Text helpers *)

SetMin(S) == CHOOSE x \in S : \A y \in S : x <= y

SetMax(S) == CHOOSE x \in S : \A y \in S : x >= y

\* String.prototype.trim: drop leading and trailing whitespace
Trim(s) ==
    LET keep == {k \in 1..Len(s) : s[k] \notin Whitespace}
    IN  IF keep = {} THEN <<>> ELSE SubSeq(s, SetMin(keep), SetMax(keep))

\* String.prototype.includes('Error')
IncludesError(s) == \E k \in 1..Len(s) : s[k] = "Error"

\* a || b on strings: the empty string is falsy
OrElse(a, b) == IF a # <<>> THEN a ELSE b

-----------------------------------------------------------------------------
(* Java sources. A source text is a sequence of tokens: words (maximal runs *)
(* of \w characters), whitespace, and other characters.                    *)

Words == {"public", "nonpublic", "class", "final", "Main", "Foo"}

\* the first index from k on that holds no whitespace, Len(s) + 1 if none
SkipWhitespace(s, k) ==
    SetMin({j \in k..Len(s) : s[j] \notin Whitespace} \cup {Len(s) + 1})

\* /public\s+class\s+(\w+)/ matched with `public` in token k: <<name>>, or
\* <<>> when there is no match there. The pattern is not anchored at a word
\* boundary, so `public` may end a longer word.
MatchAt(s, k) ==
    LET c == SkipWhitespace(s, k + 1)
        n == SkipWhitespace(s, c + 1)
    IN  IF /\ s[k] \in {"public", "nonpublic"}
           /\ c > k + 1 /\ c <= Len(s) /\ s[c] = "class"
           /\ n > c + 1 /\ n <= Len(s) /\ s[n] \in Words
        THEN << s[n] >>
        ELSE <<>>

\* mutant: the default name whatever the source declares
ExtractJavaClassName_Default(src) == "Solution"

\* code.match(/public\s+class\s+(\w+)/): the leftmost match, or "Solution"
ExtractJavaClassName(src) ==
    LET matches == {k \in 1..Len(src) : MatchAt(src, k) # <<>>}
    IN  IF matches = {} THEN "Solution"
        ELSE MatchAt(src, SetMin(matches))[1]

\* `${className}.java`
JavaFileName(className) == <<className, ".java">>

\* a command line handed to exec: the program and its argument
Command(prog, arg) == [prog |-> prog, arg |-> arg]

\* `javac ${fileName}`
CompileCommand(src) ==
    Command("javac", JavaFileName(ExtractJavaClassName(src)))

\* `node ${filePath}`, `python3 ${filePath}`, `java ${className}`
RunCommand(lang, src) ==
    IF lang = "javascript" THEN Command("node", <<"solution", ".js">>)
    ELSE IF lang = "python" THEN Command("python3", <<"solution", ".py">>)
    ELSE Command("java", << ExtractJavaClassName(src) >>)

\* the file the source is written to
SourceFile(lang, src) ==
    IF lang = "javascript" THEN <<"solution", ".js">>
    ELSE IF lang = "python" THEN <<"solution", ".py">>
    ELSE JavaFileName(ExtractJavaClassName(src))

MainSource == <<"public", " ", "class", " ", "Main", " ", "{", "}">>

CodePool ==
    { MainSource,
      <<"class", " ", "Main", " ", "{", "}">>,
      <<"public", " ", "final", " ", "class", " ", "Main">>,
      <<"public", "\n", " ", "class", "\n", "Foo", "{", "}">>,
      <<"class", " ", "Foo", "{", "}", "public", " ", "class", " ", "Main">>,
      <<"public", " ", "class", " ", "Foo", "{", "}", "\n",
        "public", " ", "class", " ", "Main">>,
      <<"//", "nonpublic", " ", "class", " ", "Foo", "\n",
        "public", " ", "class", " ", "Main">>,
      <<"public", " ", "class", " ", "{", "public", " ", "class", " ", "Main">>,
      <<"public", " ", "class">> }

-----------------------------------------------------------------------------
(* Inputs *)

TestCasePool ==
    { [input |-> <<"1">>, expectedOutput |-> <<"a">>, isHidden |-> FALSE],
      [input |-> <<"2">>, expectedOutput |-> <<" ", "a", "\n">>, isHidden |-> TRUE],
      [input |-> <<"3">>, expectedOutput |-> <<"b">>, isHidden |-> FALSE] }

SeqsUpTo(S, n) == UNION { [1..k -> S] : k \in 0..n }

ExecIds == 1..MaxCases

\* Date.now() - startTime of an execution that was not killed
Elapsed == {3}

------------------------------------------------------------------------------------------------------------------------------
(* Child processes.                                                        *)
(* A behaviour is what the program does when run: what it writes to stdout *)
(* and stderr and how it ends: exit = <<code>>, or <<>> when it is still   *)
(* running at whatever time the timeout expires.                           *)
(* A settlement is what promisify(exec) settles with: cause "exit" with    *)
(* code 0 resolves {stdout, stderr}; anything else rejects with an error   *)
(* carrying killed, code, stdout, stderr and message. code -1 stands for a *)
(* null or non-numeric code. cause records why the child ended.            *)

\* one token of text stands for this many characters
TokenSize == MAX_OUTPUT_SIZE \div 2

Size(s) == Len(s) * TokenSize

\* mutant: the stream is kept whole
Truncate_None(s) == s

\* exec keeps the first maxBuffer characters of a stream that exceeds it
Truncate(s) ==
    IF Size(s) > MAX_OUTPUT_SIZE
    THEN SubSeq(s, 1, MAX_OUTPUT_SIZE \div TokenSize)
    ELSE s

Behaviour(stdout, stderr, exit) ==
    [stdout |-> stdout, stderr |-> stderr, exit |-> exit]

RunBehaviours ==
    { Behaviour(<<"a", "\n">>, <<>>, <<0>>),
      Behaviour(<<"b">>, <<>>, <<0>>),
      Behaviour(<<"a">>, <<"warn", "\n">>, <<0>>),
      Behaviour(<<"a">>, <<"Error">>, <<0>>),
      Behaviour(<<"a", "\n">>, <<>>, <<1>>),
      Behaviour(<<"a">>, <<>>, <<>>),
      Behaviour(<<>>, <<>>, <<TIMEOUT_EXIT_CODE>>),
      Behaviour(<<"a", "b", "c">>, <<>>, <<0>>) }

\* programs that write only whitespace to stderr
QuietBehaviours ==
    { Behaviour(<<"b">>, <<>>, <<0>>),
      Behaviour(<<"b">>, <<"\n">>, <<0>>),
      Behaviour(<<"a">>, <<>>, <<1>>) }

CompileBehaviours ==
    { Behaviour(<<>>, <<>>, <<0>>),
      Behaviour(<<>>, <<"Error", "\n">>, <<1>>),
      Behaviour(<<>>, <<>>, <<>>) }

Settlement(cause, exitCode, killed, stdout, stderr, message) ==
    [cause |-> cause, code |-> exitCode, killed |-> killed, stdout |-> stdout,
     stderr |-> stderr, message |-> message]

\* a child that exited, or that exec killed at its timeout
Proc(exitCode, killed, stdout, stderr) ==
    Settlement(IF killed THEN "timeout" ELSE "exit", exitCode, killed,
               stdout, stderr, <<"Command failed">>)

\* exec's maxBuffer check: the child is killed and the error is
\* ERR_CHILD_PROCESS_STDIO_MAXBUFFER, which carries no killed flag
MaxBufferError(b) ==
    Settlement("maxBuffer", -1, FALSE, Truncate(b.stdout), Truncate(b.stderr),
               <<"stdout maxBuffer length exceeded">>)

\* how exec settles for a child with behaviour b. wrapped: the command is
\* run under `timeout N` (the run step of InContainerCodeExecutor), which
\* ends a hanging program with exit code 124 unless the program ignores its
\* signal; then exec's own timeout kills the shell.
Settlements(b, wrapped) ==
    IF Size(b.stdout) > MAX_OUTPUT_SIZE \/ Size(b.stderr) > MAX_OUTPUT_SIZE
    THEN { MaxBufferError(b) }
    ELSE IF b.exit = <<>>
    THEN { Proc(-1, TRUE, b.stdout, b.stderr) } \cup
         ( IF wrapped
           THEN { Settlement("timeout", TIMEOUT_EXIT_CODE, FALSE, b.stdout,
                             b.stderr, <<"Command failed">>) }
           ELSE {} )
    ELSE { Proc(b.exit[1], FALSE, b.stdout, b.stderr) }

RunOutcomes(v) ==
    UNION { Settlements(b, v = "container") : b \in RunBehaviours }

CompileOutcomes ==
    UNION { Settlements(b, FALSE) : b \in CompileBehaviours }

\* a rejected fs.writeFile inside the inner try: no killed, stdout, stderr
FsError == Settlement("fs", -1, FALSE, <<>>, <<>>, <<"ENOSPC">>)

\* mutant: every settlement of exec is taken for a resolution
Resolved_Always(p) == TRUE

Resolved(p) == p.code = 0 /\ ~p.killed /\ p.cause = "exit"

\* what the child reads on its standard input. exec() has no `input` option
\* (only the synchronous calls have): SimpleCodeExecutor's child gets an
\* empty pipe that is never closed. InContainerCodeExecutor redirects the
\* input file.
ChildStdin(v, input) ==
    IF v = "simple"
    THEN [data |-> <<>>, closed |-> FALSE]
    ELSE [data |-> input, closed |-> TRUE]

\* durations of a child process in the timing specification
SlowElapsed == {3, 4000}

\* Math.ceil(a / b)
CeilDiv(a, b) == (a + b - 1) \div b

\* the N of `timeout N`: Math.ceil(EXECUTION_TIMEOUT / 1000) seconds
TimeoutSeconds == CeilDiv(EXECUTION_TIMEOUT, 1000)

\* the latest a child can end by itself, in ms after its start
ExitDeadline(wrapped) ==
    IF wrapped THEN TimeoutSeconds * 1000 ELSE EXECUTION_TIMEOUT

\* ms from the start of a child to the settlement p of its exec call, for a
\* child that would run t ms: exec's timeout option is EXECUTION_TIMEOUT, or
\* EXECUTION_TIMEOUT + 1000 around a wrapped command
SettleTime(p, wrapped, t) ==
    IF p.cause # "timeout" THEN t
    ELSE IF ~p.killed THEN TimeoutSeconds * 1000
    ELSE IF wrapped THEN EXECUTION_TIMEOUT + TIMEOUT_SLACK
    ELSE EXECUTION_TIMEOUT

\* exec's kill and timeout(1) signal one process: when a child is ended that
\* way, processes under it may be left running
MayOutlive(p) == p.cause \in {"timeout", "maxBuffer"}


-----------------------------------------------------------------------------
(* ExecutionResult values *)

Result(success, output, error, executionTime) ==
    [success |-> success, output |-> output, error |-> error,
     executionTime |-> executionTime]

\* mutant: a resolved exec call is a success whatever stderr holds
StderrOk_Always(v, stderr) == TRUE

\* the `success:` expression of the resolve path
StderrOk(v, stderr) ==
    IF v = "simple" THEN stderr = <<>>
    ELSE Len(stderr) = 0 \/ ~IncludesError(stderr)

\* the return after `await execPromise(...)` resolved
ResolvedResult(v, p, t) ==
    Result(StderrOk(v, p.stderr), Trim(p.stdout), Trim(p.stderr), t)

\* mutant: only exec's own kill counts as a timeout
IsTimeout_KilledOnly(v, p) == p.killed

\* the `if (error.killed ...)` test of the inner catch
IsTimeout(v, p) ==
    IF v = "simple" THEN p.killed
    ELSE p.killed \/ p.code = TIMEOUT_EXIT_CODE

\* the inner catch block of executeJavaScript / executePython / executeJava
InnerCatch(v, p, t) ==
    IF IsTimeout(v, p)
    THEN Result(FALSE, <<>>, <<"Execution timed out">>, EXECUTION_TIMEOUT)
    ELSE Result(FALSE, OrElse(Trim(p.stdout), <<>>),
                OrElse(Trim(p.stderr), p.message), t)

\* mutant: the catch block rethrows, so the call rejects
OuterCatch_Rethrow(message) == <<>>

\* mutant: the catch block drops the message
OuterCatch_NoMessage(message) == << Result(FALSE, <<>>, <<>>, 0) >>

\* the catch block of executeCode: the value the call returns, as <<r>>
OuterCatch(message) == << Result(FALSE, <<>>, message, 0) >>

-----------------------------------------------------------------------------
(* executeCode: one call per test case, exec[i] for testCases[i].          *)
(* pc of a call: none -> mkdir -> write -> [compile] -> [input] -> run     *)
(*               -> [rm] -> returned | rejected                            *)
(* executionId = crypto.randomBytes(16): a fresh id per call, the index i. *)

NotCalled == [pc |-> "none", result |-> <<>>]

\* child[i] before any child process of call i: elapsed is Date.now() -
\* startTime, compile / run the settlement of each exec call, thrown the
\* exception raised and the catch block that took it, orphan whether a
\* process of the call is running after its exec call settled, program the
\* behaviour of the program run, stdin what it was given on standard input,
\* sourceFile the file the source was written to, commands the command
\* lines handed to exec
NoChild == [elapsed |-> 0, compile |-> <<>>, program |-> <<>>, run |-> <<>>,
            thrown |-> <<>>, orphan |-> FALSE, stdin |-> <<>>,
            sourceFile |-> <<>>, commands |-> <<>>]

\* exec is called with a command of call i
Started(i, label) ==
    IF label = "compile" THEN Append(child[i].commands, CompileCommand(code))
    ELSE IF label = "run"
    THEN Append(child[i].commands, RunCommand(language, code))
    ELSE child[i].commands

\* the source file of call i is written and the adapter goes on to label
SourceWritten(i, label) ==
    child' = [child EXCEPT
        ![i].sourceFile = << SourceFile(language, code) >>,
        ![i].commands = Started(i, label)]

Thrown(message, at) == << [message |-> message, at |-> at] >>

\* an exception reaches the catch block of executeCode
Throw(i, message) ==
    child' = [child EXCEPT ![i].thrown = Thrown(message, "executeCode")]

\* how an async call settles: res = <<r>> resolves with r, <<>> rejects
Settled(res) == IF res = <<>> THEN "rejected" ELSE "returned"

\* mutant: the cleanup sits at the end of the try block instead of in a
\* finally, so a failed execution returns without any removal
Finally_OnSuccessOnly(i, res) ==
    IF res # <<>> /\ res[1].success
    THEN IF variant = "simple"
         THEN /\ exec' = [exec EXCEPT ![i] = [pc |-> "rm", result |-> res]]
              /\ rmTried' = rmTried \cup {i}
              /\ timers' = timers
         ELSE /\ exec' = [exec EXCEPT ![i] = [pc |-> Settled(res), result |-> res]]
              /\ timers' = timers \cup {i}
              /\ rmTried' = rmTried
    ELSE /\ exec' = [exec EXCEPT ![i] = [pc |-> Settled(res), result |-> res]]
         /\ UNCHANGED <<timers, rmTried>>

\* mutant: SimpleCodeExecutor does not await fs.rm either; the removal is
\* left pending and the call returns at once
Finally_NotAwaited(i, res) ==
    /\ exec' = [exec EXCEPT ![i] = [pc |-> Settled(res), result |-> res]]
    /\ timers' = timers \cup {i}
    /\ rmTried' = rmTried

\* the finally block of executeCode, entered with the try/catch outcome res.
\* SimpleCodeExecutor awaits fs.rm; InContainerCodeExecutor calls
\* cleanupDirectory, which only schedules the removal, and returns at once.
Finally(i, res) ==
    IF variant = "simple"
    THEN /\ exec' = [exec EXCEPT ![i] = [pc |-> "rm", result |-> res]]
         /\ rmTried' = rmTried \cup {i}
         /\ timers' = timers
    ELSE /\ exec' = [exec EXCEPT ![i] = [pc |-> Settled(res), result |-> res]]
         /\ timers' = timers \cup {i}
         /\ rmTried' = rmTried

Goto(i, label) ==
    /\ exec' = [exec EXCEPT ![i].pc = label]
    /\ UNCHANGED <<timers, rmTried>>

CtrlVars == <<code, problem, doc, response, reqs, previous>>

JudgeVars == <<variant, language, testCases, pc, idx, results,
               shouldContinue, summary, CtrlVars>>

\* the message of the switch's default branch
UnsupportedLanguage(lang) == <<"Unsupported language: ", lang>>

\* await fs.mkdir(executionDir) settles; then the switch on language
ExecuteCode_Mkdir(i) ==
    /\ exec[i].pc = "mkdir"
    /\ \/ /\ dirs' = dirs \cup {i}
          /\ IF language \in SupportedLanguages
             THEN Goto(i, "write") /\ UNCHANGED child
             ELSE /\ Throw(i, UnsupportedLanguage(language))
                  /\ Finally(i, OuterCatch(UnsupportedLanguage(language)))
       \/ /\ dirs' = dirs
          /\ Throw(i, <<"EACCES">>)
          /\ Finally(i, OuterCatch(<<"EACCES">>))
    /\ UNCHANGED <<JudgeVars, rmLog>>

\* where execution goes once the source (and, for Java, the class) is ready
AfterSource == IF variant = "simple" THEN "run" ELSE "input"

\* executeJavaScript / executePython: await fs.writeFile(filePath, ...) settles
ExecuteScript_Write(i) ==
    /\ exec[i].pc = "write"
    /\ language \in {"javascript", "python"}
    /\ \/ Goto(i, AfterSource) /\ SourceWritten(i, AfterSource)
       \/ Throw(i, <<"ENOSPC">>) /\ Finally(i, OuterCatch(<<"ENOSPC">>))
    /\ UNCHANGED <<JudgeVars, dirs, rmLog>>

\* executeJava: await fs.writeFile(filePath, code) settles; javac is started
ExecuteJava_Write(i) ==
    /\ exec[i].pc = "write"
    /\ language = "java"
    /\ \/ Goto(i, "compile") /\ SourceWritten(i, "compile")
       \/ Throw(i, <<"ENOSPC">>) /\ Finally(i, OuterCatch(<<"ENOSPC">>))
    /\ UNCHANGED <<JudgeVars, dirs, rmLog>>

\* executeJava: await execPromise(`javac ...`) settles, the compiler having
\* run some t in D ms. startTime was taken before it.
CompileStep(i, D) ==
    /\ exec[i].pc = "compile"
    /\ \E p \in CompileOutcomes, t \in D, o \in BOOLEAN :
          LET now == child[i].elapsed + SettleTime(p, FALSE, t)
          IN  /\ t <= ExitDeadline(FALSE)
              /\ o => MayOutlive(p)
              /\ child' = [child EXCEPT
                    ![i].elapsed = now,
                    ![i].compile = <<p>>,
                    ![i].orphan = o,
                    ![i].commands = IF Resolved(p) THEN Started(i, AfterSource)
                                    ELSE @,
                    ![i].thrown = IF Resolved(p) THEN <<>>
                                  ELSE Thrown(p.message, "adapter")]
              /\ IF Resolved(p)
                 THEN Goto(i, AfterSource)
                 ELSE Finally(i, << InnerCatch(variant, p, now) >>)
    /\ UNCHANGED <<JudgeVars, dirs, rmLog>>

ExecuteJava_Compile(i) == CompileStep(i, Elapsed)

\* InContainerCodeExecutor: await fs.writeFile(inputFile, input) settles,
\* inside the inner try
Execute_WriteInput(i) ==
    /\ exec[i].pc = "input"
    /\ \/ /\ Goto(i, "run")
          /\ child' = [child EXCEPT ![i].commands = Started(i, "run")]
       \/ \E t \in Elapsed :
             LET now == child[i].elapsed + t
             IN  /\ child' = [child EXCEPT
                       ![i].elapsed = now,
                       ![i].thrown = Thrown(FsError.message, "adapter")]
                 /\ Finally(i, << InnerCatch(variant, FsError, now) >>)
    /\ UNCHANGED <<JudgeVars, dirs, rmLog>>

\* await execPromise(run command) settles, the program being one of B and
\* having run some t in D ms on the standard input the command gives it
RunStep(i, D, B) ==
    /\ exec[i].pc = "run"
    /\ \E b \in B, t \in D, o \in BOOLEAN :
       \E p \in Settlements(b, variant = "container") :
          LET wrapped == variant = "container"
              now == child[i].elapsed + SettleTime(p, wrapped, t)
          IN  /\ t <= ExitDeadline(wrapped)
              /\ o => MayOutlive(p)
              /\ child' = [child EXCEPT
                    ![i].elapsed = now,
                    ![i].program = <<b>>,
                    ![i].run = <<p>>,
                    ![i].orphan = o,
                    ![i].stdin = << ChildStdin(variant, testCases[i].input) >>,
                    ![i].thrown = IF Resolved(p) THEN <<>>
                                  ELSE Thrown(p.message, "adapter")]
              /\ Finally(i, << IF Resolved(p)
                               THEN ResolvedResult(variant, p, now)
                               ELSE InnerCatch(variant, p, now) >>)
    /\ UNCHANGED <<JudgeVars, dirs, rmLog>>

Execute_Run(i) == RunStep(i, Elapsed, RunBehaviours)

\* a process left running by a killed child ends by itself
Orphan_Exit(i) ==
    /\ child[i].orphan
    /\ child' = [child EXCEPT ![i].orphan = FALSE]
    /\ UNCHANGED <<JudgeVars, exec, dirs, timers, rmTried, rmLog>>

\* fs.rm(dir, {recursive, force}) settles: removed, or failed and logged.
\* With force a missing directory is no failure.
RemoveDirectory(i) ==
    \/ /\ dirs' = dirs \ {i}
       /\ rmLog' = rmLog
    \/ /\ i \in dirs
       /\ dirs' = dirs
       /\ rmLog' = rmLog \cup {i}

\* mutant: a failed removal is raised to the caller
ExecuteCode_Rm_Raises(i) ==
    /\ exec[i].pc = "rm"
    /\ RemoveDirectory(i)
    /\ exec' = [exec EXCEPT ![i].pc = IF i \in rmLog' THEN "rejected"
                                      ELSE Settled(exec[i].result)]
    /\ UNCHANGED <<JudgeVars, timers, rmTried, child>>

\* SimpleCodeExecutor: the awaited fs.rm of the finally block settles
ExecuteCode_Rm(i) ==
    /\ exec[i].pc = "rm"
    /\ RemoveDirectory(i)
    /\ exec' = [exec EXCEPT ![i].pc = Settled(exec[i].result)]
    /\ UNCHANGED <<JudgeVars, timers, rmTried, child>>

\* InContainerCodeExecutor.cleanupDirectory: the setTimeout callback runs
CleanupDirectory_Timer(i) ==
    /\ i \in timers
    /\ timers' = timers \ {i}
    /\ rmTried' = rmTried \cup {i}
    /\ RemoveDirectory(i)
    /\ UNCHANGED <<JudgeVars, exec, child>>

-----------------------------------------------------------------------------
(* runTestCases *)

\* mutant: the outputs are compared untrimmed
Passed_NoTrim(r, tc) == r.success /\ r.output = tc.expectedOutput

\* `passed = result.success && result.output.trim() === expectedOutput.trim()`
Passed(r, tc) == r.success /\ Trim(r.output) = Trim(tc.expectedOutput)

\* mutant: the object is pushed without what the execution reported
TestResult_Partial(tc, r) ==
    [input |-> tc.input,
     expectedOutput |-> tc.expectedOutput,
     isHidden |-> (tc.isHidden \/ FALSE)]

\* the object pushed to results
TestResult(tc, r) ==
    [input |-> tc.input,
     expectedOutput |-> tc.expectedOutput,
     actualOutput |-> r.output,
     passed |-> Passed(r, tc),
     error |-> r.error,
     executionTime |-> r.executionTime,
     isHidden |-> (tc.isHidden \/ FALSE)]

\* mutant: results.unshift(...)
Push_Front(rs, tr) == <<tr>> \o rs

\* results.push(...)
Push(rs, tr) == Append(rs, tr)

\* mutant: no fail-fast at all
StopsRun_Never(r, passed) == FALSE

\* mutant: fail-fast on any failed case, wrong answers included
StopsRun_OnNotPassed(r, passed) == ~passed

\* mutant: fail-fast only when the failed execution printed nothing
StopsRun_OnEmptyOutput(r, passed) == ~r.success /\ r.output = <<>>

\* `if (!result.success)`: the run stops after this case
StopsRun(r, passed) == ~r.success

\* mutant: results.length, the filter left out
CountPassed_All(rs) == Len(rs)

\* results.filter(r => r.passed).length
RECURSIVE CountPassed(_)
CountPassed(rs) ==
    IF rs = <<>> THEN 0
    ELSE (IF Head(rs).passed THEN 1 ELSE 0) + CountPassed(Tail(rs))

\* mutant: total counts the executed cases only
Summary_TotalExecuted(tcs, rs) ==
    LET totalTests == Len(rs)
        passedTests == CountPassed(rs)
    IN  [total |-> totalTests,
         passed |-> passedTests,
         failed |-> totalTests - passedTests,
         allPassed |-> (passedTests = totalTests)]

\* mutant: failed counts the executed cases that did not pass
Summary_FailedOfExecuted(tcs, rs) ==
    LET totalTests == Len(tcs)
        passedTests == CountPassed(rs)
    IN  [total |-> totalTests,
         passed |-> passedTests,
         failed |-> Len(rs) - passedTests,
         allPassed |-> (passedTests = totalTests)]

\* mutant: an empty run is not reported as allPassed
Summary_NeverVacuous(tcs, rs) ==
    LET totalTests == Len(tcs)
        passedTests == CountPassed(rs)
    IN  [total |-> totalTests,
         passed |-> passedTests,
         failed |-> totalTests - passedTests,
         allPassed |-> (totalTests > 0 /\ passedTests = totalTests)]

\* the summary object of the return value
Summary(tcs, rs) ==
    LET totalTests == Len(tcs)
        passedTests == CountPassed(rs)
    IN  [total |-> totalTests,
         passed |-> passedTests,
         failed |-> totalTests - passedTests,
         allPassed |-> (passedTests = totalTests)]

\* mutant: the next executeCode call is made without awaiting the previous one
LoopReady_NoAwait == pc \in {"loop", "await"}

\* the loop may take the next test case: the previous await has resumed
LoopReady == pc = "loop"

ExecVars == <<dirs, timers, rmTried, rmLog, child>>

\* runTestCases is entered: `const results = []` (and shouldContinue = true)
RunTestCases_Enter ==
    /\ pc = "start"
    /\ pc' = "loop"
    /\ results' = <<>>
    /\ shouldContinue' = TRUE
    /\ UNCHANGED <<variant, language, testCases, idx, summary, exec, ExecVars,
                   CtrlVars>>

\* the for-of loop head: take the next test case and call executeCode, or
\* leave the loop (exhausted; `if (!shouldContinue) break`)
RunTestCases_Loop ==
    /\ LoopReady
    /\ IF idx < Len(testCases) /\ (variant = "simple" \/ shouldContinue)
       THEN /\ idx' = idx + 1
            /\ exec' = [exec EXCEPT ![idx + 1].pc = "mkdir"]
            /\ pc' = "await"
       ELSE /\ pc' = "summary"
            /\ UNCHANGED <<idx, exec>>
    /\ UNCHANGED <<variant, language, testCases, results, shouldContinue,
                   summary, ExecVars, CtrlVars>>

\* `await this.executeCode(...)` resumes: push the TestResult, then break
\* (SimpleCodeExecutor) or clear shouldContinue (InContainerCodeExecutor)
RunTestCases_Await ==
    /\ pc = "await"
    /\ exec[idx].pc \in {"returned", "rejected"}
    /\ IF exec[idx].pc = "rejected"
       THEN /\ pc' = "rejected"
            /\ UNCHANGED <<results, shouldContinue>>
       ELSE LET r == exec[idx].result[1]
                tc == testCases[idx]
                tr == TestResult(tc, r)
            IN  /\ results' = Push(results, tr)
                /\ IF StopsRun(r, tr.passed)
                   THEN IF variant = "simple"
                        THEN pc' = "summary" /\ UNCHANGED shouldContinue
                        ELSE pc' = "loop" /\ shouldContinue' = FALSE
                   ELSE pc' = "loop" /\ UNCHANGED shouldContinue
    /\ UNCHANGED <<variant, language, testCases, idx, summary, exec, ExecVars,
                   CtrlVars>>

\* after the loop: build and return {results, summary}
RunTestCases_Return ==
    /\ pc = "summary"
    /\ summary' = << Summary(testCases, results) >>
    /\ pc' = "done"
    /\ UNCHANGED <<variant, language, testCases, idx, results, shouldContinue,
                   exec, ExecVars, CtrlVars>>

-----------------------------------------------------------------------------
(* submitCode, from the return of codeExecutor.runTestCases on. The        *)
(* controller imports SimpleCodeExecutor.                                  *)

Stats(submissions, accepted, rate) ==
    [totalSubmissions |-> submissions, totalAccepted |-> accepted,
     acceptanceRate |-> rate]

\* Math.round((a / b) * 100) for a >= 0, b > 0
RoundPercent(a, b) == (200 * a + b) \div (2 * b)

ProblemPool == { Stats(0, 0, 0), Stats(3, 1, 33) }

\* mutant: hidden results are returned like the visible ones
PublicResult_Full(result) == result

\* the callback of testResults.results.map
PublicResult(result) ==
    IF result.isHidden
    THEN [passed |-> result.passed,
          error |-> result.error,
          executionTime |-> result.executionTime,
          isHidden |-> TRUE]
    ELSE result

PublicResults(rs) == [k \in 1..Len(rs) |-> PublicResult(rs[k])]

\* the statistics update on the in-memory document
UpdateStats(d, allPassed) ==
    LET accepted == d.totalAccepted + (IF allPassed THEN 1 ELSE 0)
        submissions == d.totalSubmissions + 1
    IN  Stats(submissions, accepted,
              IF submissions > 0 THEN RoundPercent(accepted, submissions)
              ELSE d.acceptanceRate)

\* res.status(200).json({...})
Accepted200(rs, sm) ==
    [status |-> 200,
     body |-> [message |-> IF sm.allPassed THEN "All tests passed!"
                           ELSE "Some tests failed",
               results |-> PublicResults(rs),
               summary |-> sm,
               accepted |-> sm.allPassed]]

\* the catch block: res.status(500).json({...})
Error500 == [status |-> 500, body |-> [message |-> "Internal Server Error"]]

\* `await codeExecutor.runTestCases(...)` resumes: the statistics are
\* updated on the document and problem.save() is called
SubmitCode_Judged ==
    /\ variant = "simple"
    /\ pc = "done"
    /\ doc' = UpdateStats(doc, summary[1].allPassed)
    /\ pc' = "save"
    /\ UNCHANGED <<variant, language, testCases, idx, results, shouldContinue,
                   summary, exec, ExecVars, code, problem, response, reqs,
                   previous>>

\* `await problem.save()` settles: stored and answered with 200, or
\* rejected and answered with 500 by the catch block
SubmitCode_Saved ==
    /\ pc = "save"
    /\ \/ /\ problem' = doc
          /\ response' = << Accepted200(results, summary[1]) >>
       \/ /\ problem' = problem
          /\ response' = << Error500 >>
    /\ pc' = "responded"
    /\ UNCHANGED <<variant, language, testCases, idx, results, shouldContinue,
                   summary, exec, ExecVars, code, doc, reqs, previous>>

-----------------------------------------------------------------------------
(* runCode, from the problem document findById returned to the response.  *)

\* a problem document: its statistics and its test cases
Document(stats, cases) ==
    [totalSubmissions |-> stats.totalSubmissions,
     totalAccepted |-> stats.totalAccepted,
     acceptanceRate |-> stats.acceptanceRate,
     testCases |-> cases]

IsVisible(tc) == ~tc.isHidden

\* mutant: every test case of the problem is run
Visible_All(tcs) == tcs

\* problem.testCases.filter(tc => !tc.isHidden)
Visible(tcs) == SelectSeq(tcs, IsVisible)

\* the problem is loaded and active: the visible test cases are taken and
\* runTestCases is called on them, or the request is answered with 400
RunCode_Filter ==
    /\ pc = "found"
    /\ LET visibleTestCases == Visible(doc.testCases)
       IN  IF Len(visibleTestCases) = 0
           THEN /\ response' = << [status |-> 400,
                                   body |-> [message |->
                                       "No visible test cases available for this problem"]] >>
                /\ pc' = "responded"
                /\ UNCHANGED testCases
           ELSE /\ testCases' = visibleTestCases
                /\ pc' = "start"
                /\ UNCHANGED response
    /\ UNCHANGED <<variant, language, idx, results, shouldContinue, summary,
                   exec, ExecVars, code, problem, doc, reqs, previous>>

\* `await codeExecutor.runTestCases(...)` resumes: res.status(200).json(...)
RunCode_Judged ==
    /\ pc = "done"
    /\ response' = << [status |-> 200,
                       body |-> [message |-> "Code execution completed",
                                 results |-> results,
                                 summary |-> summary[1]]] >>
    /\ pc' = "responded"
    /\ UNCHANGED <<variant, language, testCases, idx, results, shouldContinue,
                   summary, exec, ExecVars, code, problem, doc, reqs,
                   previous>>

-----------------------------------------------------------------------------
(* The three handlers of submissionController.js, each from the request   *)
(* to the response, for requests that are handled concurrently. The       *)
(* judge is taken by what it returns.                                      *)

ReqIds == 1..NumRequests

Handlers == {"submitCode", "runCode", "executeCustomInput"}

\* req.body: each field is <<v>> when present and <<>> when missing
Body(problemId, source, lang) ==
    [problemId |-> problemId, code |-> source, language |-> lang]

BodyPool ==
    { Body(<<"p1">>, <<MainSource>>, <<"javascript">>),
      Body(<<"p1">>, <<MainSource>>, <<"ruby">>),
      Body(<<"p1">>, <<MainSource>>, <<>>),
      Body(<<>>, <<MainSource>>, <<"javascript">>),
      Body(<<>>, <<MainSource>>, <<"ruby">>),
      Body(<<"p0">>, <<MainSource>>, <<"javascript">>),
      Body(<<"p2">>, <<MainSource>>, <<"javascript">>),
      Body(<<"p3">>, <<MainSource>>, <<"javascript">>) }

\* the fields of a problem document the handlers read and never write;
\* testCases is the sequence of the isHidden flags
ProblemDoc(isActive, starterCode, cases) ==
    [isActive |-> isActive, starterCode |-> starterCode, testCases |-> cases]

\* the problems collection: p1 is available in every language, p2 is
\* inactive, p3 has starter code for python and hidden test cases only
Collection ==
    [p1 |-> ProblemDoc(TRUE, SupportedLanguages, <<FALSE, TRUE>>),
     p2 |-> ProblemDoc(FALSE, SupportedLanguages, <<FALSE>>),
     p3 |-> ProblemDoc(TRUE, {"python"}, <<TRUE>>)]

\* the statistics of p1 when the requests arrive: three submissions, one
\* of them accepted
StoredAtStart == Stats(3, 1, 33)

\* Problem.findById(id) resolved: <<document>> or <<>> for null
FindById(id) == IF id \in DOMAIN Collection THEN << Collection[id] >> ELSE <<>>

\* `!problemId || !code || !language`, `!code || !language`
MissingFields(kind, body) ==
    IF kind = "executeCustomInput"
    THEN body.code = <<>> \/ body.language = <<>>
    ELSE body.problemId = <<>> \/ body.code = <<>> \/ body.language = <<>>

validLanguages == {"javascript", "java", "python"}

\* mutant: every language is taken for a valid one
ValidLanguage_Any(lang) == TRUE

\* validLanguages.includes(language)
ValidLanguage(lang) == lang \in validLanguages

\* problem.starterCode.some(sc => sc.language === language)
HasStarterCode(d, lang) == lang \in d.starterCode

\* problem.testCases.filter(tc => !tc.isHidden).length
VisibleTestCases(d) ==
    Cardinality({k \in 1..Len(d.testCases) : ~d.testCases[k]})

\* the test cases the handler passes to runTestCases
CasesToRun(kind, d) ==
    IF kind = "runCode" THEN VisibleTestCases(d) ELSE Len(d.testCases)

\* a hydrated document: the statistics it holds and the paths modified
\* since it was loaded
Loaded(stats) == [stats |-> stats, modified |-> {}]

\* an assignment to a path of a document: the path is marked modified when
\* the value differs from the one the document holds
SetPath(d, path, value) ==
    IF d.stats[path] = value THEN d
    ELSE [stats |-> [d.stats EXCEPT ![path] = value],
          modified |-> d.modified \cup {path}]

\* mutant: totalAccepted is incremented whatever the summary says
UpdateDocument_AlwaysAccepted(d, allPassed) ==
    LET d1 == SetPath(d, "totalAccepted", d.stats.totalAccepted + 1)
        d2 == SetPath(d1, "totalSubmissions", d1.stats.totalSubmissions + 1)
    IN  IF d2.stats.totalSubmissions > 0
        THEN SetPath(d2, "acceptanceRate",
                     RoundPercent(d2.stats.totalAccepted,
                                  d2.stats.totalSubmissions))
        ELSE d2

\* the statistics update of submitCode on its document
UpdateDocument(d, allPassed) ==
    LET d1 == IF allPassed
              THEN SetPath(d, "totalAccepted", d.stats.totalAccepted + 1)
              ELSE d
        d2 == SetPath(d1, "totalSubmissions", d1.stats.totalSubmissions + 1)
    IN  IF d2.stats.totalSubmissions > 0
        THEN SetPath(d2, "acceptanceRate",
                     RoundPercent(d2.stats.totalAccepted,
                                  d2.stats.totalSubmissions))
        ELSE d2

\* the validators of the modified paths: acceptanceRate has min 0, max 100
ValidDocument(d) ==
    "acceptanceRate" \in d.modified =>
        (d.stats.acceptanceRate >= 0 /\ d.stats.acceptanceRate <= 100)

\* what problem.save() stores: the modified paths are set, the other
\* paths of the stored document are left as they are
SaveDocument(stored, d) ==
    [f \in DOMAIN stored |->
        IF f \in d.modified THEN d.stats[f] ELSE stored[f]]

\* a request that has entered its handler
Request(kind, body) ==
    [kind |-> kind,
     body |-> body,
     pc |-> "received",
     looked |-> FALSE,      \* Problem.findById has been called
     executions |-> 0,      \* executeCode calls made: workspaces asked for
     loaded |-> <<>>,       \* the statistics findById returned
     doc |-> <<>>,          \* the document of the handler
     allPassed |-> <<>>,    \* summary.allPassed of the judge's return value
     response |-> <<>>]

\* res.status(status).json(body)
Respond(status, body) == << [status |-> status, body |-> body] >>

Reject400(message) == Respond(400, [message |-> message])

ReqUnchanged ==
    UNCHANGED <<variant, language, testCases, pc, idx, results,
                shouldContinue, summary, exec, ExecVars, code, doc, response,
                previous>>

\* the handler up to its first await: required fields, then the language
Handler_Validate(r) ==
    /\ reqs[r].pc = "received"
    /\ LET q == reqs[r]
       IN  IF MissingFields(q.kind, q.body)
           THEN reqs' = [reqs EXCEPT ![r].pc = "responded",
                             ![r].response = Reject400("required")]
           ELSE IF ~ValidLanguage(q.body.language[1])
           THEN reqs' = [reqs EXCEPT ![r].pc = "responded",
                             ![r].response = Reject400("Invalid language")]
           ELSE IF q.kind = "executeCustomInput"
           THEN reqs' = [reqs EXCEPT ![r].pc = "execute",
                             ![r].executions = 1]
           ELSE reqs' = [reqs EXCEPT ![r].pc = "find", ![r].looked = TRUE]
    /\ UNCHANGED problem
    /\ ReqUnchanged

\* `await Problem.findById(problemId)` settles: rejected (500), or resolved
\* and checked up to the call of runTestCases
Handler_Found(r) ==
    /\ reqs[r].pc = "find"
    /\ LET q == reqs[r]
           found == FindById(q.body.problemId[1])
           lang == q.body.language[1]
       IN  \/ reqs' = [reqs EXCEPT ![r].pc = "responded",
                           ![r].response = Respond(500, Error500.body)]
           \/ IF found = <<>>
              THEN reqs' = [reqs EXCEPT ![r].pc = "responded",
                       ![r].response =
                           Respond(404, [message |-> "Problem not found"])]
              ELSE IF ~found[1].isActive
              THEN reqs' = [reqs EXCEPT ![r].pc = "responded",
                       ![r].response =
                           Respond(403, [message |-> "not available"])]
              ELSE IF q.kind = "submitCode" /\ ~HasStarterCode(found[1], lang)
              THEN reqs' = [reqs EXCEPT ![r].pc = "responded",
                       ![r].response = Reject400("not supported")]
              ELSE IF q.kind = "runCode" /\ VisibleTestCases(found[1]) = 0
              THEN reqs' = [reqs EXCEPT ![r].pc = "responded",
                       ![r].response = Reject400("No visible test cases")]
              ELSE reqs' = [reqs EXCEPT ![r].pc = "judge",
                       ![r].loaded = << problem >>,
                       ![r].doc = << Loaded(problem) >>]
    /\ UNCHANGED problem
    /\ ReqUnchanged

\* mutant: runCode updates and saves the statistics like submitCode
Handler_Judged_AlwaysSaves(r) ==
    /\ reqs[r].pc = "judge"
    /\ LET q == reqs[r]
           cases == CasesToRun(q.kind, FindById(q.body.problemId[1])[1])
       IN  \E n \in 1..cases, allPassed \in BOOLEAN :
              /\ allPassed => n = cases
              /\ reqs' = [reqs EXCEPT ![r].pc = "save",
                       ![r].executions = n,
                       ![r].allPassed = << allPassed >>,
                       ![r].doc = << UpdateDocument(q.doc[1], allPassed) >>]
    /\ UNCHANGED problem
    /\ ReqUnchanged

\* `await codeExecutor.runTestCases(...)` resumes, n test cases executed:
\* runCode answers; submitCode updates its document and calls save
Handler_Judged(r) ==
    /\ reqs[r].pc = "judge"
    /\ LET q == reqs[r]
           cases == CasesToRun(q.kind, FindById(q.body.problemId[1])[1])
       IN  \E n \in 1..cases, allPassed \in BOOLEAN :
              /\ allPassed => n = cases
              /\ IF q.kind = "runCode"
                 THEN reqs' = [reqs EXCEPT ![r].pc = "responded",
                          ![r].executions = n,
                          ![r].allPassed = << allPassed >>,
                          ![r].response =
                              Respond(200, [summary |-> allPassed])]
                 ELSE reqs' = [reqs EXCEPT ![r].pc = "save",
                          ![r].executions = n,
                          ![r].allPassed = << allPassed >>,
                          ![r].doc = << UpdateDocument(q.doc[1], allPassed) >>]
    /\ UNCHANGED problem
    /\ ReqUnchanged

\* `await codeExecutor.executeCode(...)` resumes: the result is the answer
Handler_Executed(r) ==
    /\ reqs[r].pc = "execute"
    /\ \E success \in BOOLEAN :
          reqs' = [reqs EXCEPT ![r].pc = "responded",
                       ![r].response = Respond(200, [success |-> success])]
    /\ UNCHANGED problem
    /\ ReqUnchanged

\* `await problem.save()` settles: validated and stored, then 200; or
\* rejected, then 500
Handler_Saved(r) ==
    /\ reqs[r].pc = "save"
    /\ LET q == reqs[r]
       IN  \/ /\ ValidDocument(q.doc[1])
              /\ problem' = SaveDocument(problem, q.doc[1])
              /\ reqs' = [reqs EXCEPT ![r].pc = "responded",
                     ![r].response =
                         Respond(200, [summary |-> q.allPassed[1],
                                       accepted |-> q.allPassed[1]])]
           \/ /\ problem' = problem
              /\ reqs' = [reqs EXCEPT ![r].pc = "responded",
                     ![r].response = Respond(500, Error500.body)]
    /\ ReqUnchanged

-----------------------------------------------------------------------------
(* Specification *)

JudgeInit ==
    /\ variant \in Variants
    /\ language \in Languages
    /\ testCases \in SeqsUpTo(TestCasePool, MaxCases)
    /\ pc = "start"
    /\ idx = 0
    /\ results = <<>>
    /\ shouldContinue = TRUE
    /\ summary = <<>>
    /\ exec = [i \in ExecIds |-> NotCalled]
    /\ dirs = {}
    /\ timers = {}
    /\ rmTried = {}
    /\ rmLog = {}
    /\ child = [i \in ExecIds |-> NoChild]
    /\ response = <<>>
    /\ reqs = <<>>
    /\ previous = <<>>

\* a problem nobody has submitted to yet
Init ==
    /\ JudgeInit
    /\ code = MainSource
    /\ problem = Stats(0, 0, 0)
    /\ doc = problem

ExecStep(i) ==
    \/ ExecuteCode_Mkdir(i)
    \/ ExecuteScript_Write(i)
    \/ ExecuteJava_Write(i)
    \/ ExecuteJava_Compile(i)
    \/ Execute_WriteInput(i)
    \/ Execute_Run(i)
    \/ ExecuteCode_Rm(i)
    \/ CleanupDirectory_Timer(i)
    \/ Orphan_Exit(i)

Next ==
    \/ RunTestCases_Enter
    \/ RunTestCases_Loop
    \/ RunTestCases_Await
    \/ RunTestCases_Return
    \/ \E i \in ExecIds : ExecStep(i)

Spec == Init /\ [][Next]_vars

\* The same calls with every test case the same one: the life of a
\* workspace directory does not depend on what a test case holds.
WorkspaceInit ==
    /\ Init
    /\ \A k \in DOMAIN testCases : testCases[k].input = <<"1">>

\* The event loop runs every settled promise continuation and every expired
\* timer; a child process exits or is killed at its timeout.
FairSpec == WorkspaceInit /\ [][Next]_vars /\ WF_vars(Next)

\* The timing specification: the same calls, with compilers and programs
\* that take a noticeable part of the timeout.
Timed_Compile(i) == CompileStep(i, SlowElapsed)

Timed_Run(i) == RunStep(i, SlowElapsed, RunBehaviours)

TimingStep(i) ==
    \/ ExecuteCode_Mkdir(i)
    \/ ExecuteScript_Write(i)
    \/ ExecuteJava_Write(i)
    \/ Timed_Compile(i)
    \/ Execute_WriteInput(i)
    \/ Timed_Run(i)
    \/ ExecuteCode_Rm(i)
    \/ CleanupDirectory_Timer(i)
    \/ Orphan_Exit(i)

TimingNext ==
    \/ RunTestCases_Enter
    \/ RunTestCases_Loop
    \/ RunTestCases_Await
    \/ RunTestCases_Return
    \/ \E i \in ExecIds : TimingStep(i)

TimingSpec == WorkspaceInit /\ [][TimingNext]_vars

\* The Java specification: one test case run on Java sources that declare
\* their classes in different ways.
JavaInit ==
    /\ JudgeInit
    /\ language = "java"
    /\ code \in CodePool
    /\ Len(testCases) = 1
    /\ problem = Stats(0, 0, 0)
    /\ doc = problem

JavaStep(i) ==
    \/ ExecuteCode_Mkdir(i)
    \/ ExecuteJava_Write(i)
    \/ ExecuteJava_Compile(i)
    \/ Execute_WriteInput(i)
    \/ Execute_Run(i)
    \/ ExecuteCode_Rm(i)
    \/ CleanupDirectory_Timer(i)
    \/ Orphan_Exit(i)

JavaNext ==
    \/ RunTestCases_Enter
    \/ RunTestCases_Loop
    \/ RunTestCases_Await
    \/ RunTestCases_Return
    \/ \E i \in ExecIds : JavaStep(i)

JavaSpec == JavaInit /\ [][JavaNext]_vars

\* The stderr specification: SimpleCodeExecutor running programs that
\* differ in what they write to stderr and in how they exit.
Quiet_Run(i) == RunStep(i, Elapsed, QuietBehaviours)

QuietInit ==
    /\ WorkspaceInit
    /\ variant = "simple"
    /\ language \in {"javascript", "python"}

QuietStep(i) ==
    \/ ExecuteCode_Mkdir(i)
    \/ ExecuteScript_Write(i)
    \/ Quiet_Run(i)
    \/ ExecuteCode_Rm(i)

QuietNext ==
    \/ RunTestCases_Enter
    \/ RunTestCases_Loop
    \/ RunTestCases_Await
    \/ RunTestCases_Return
    \/ \E i \in ExecIds : QuietStep(i)

QuietSpec == QuietInit /\ [][QuietNext]_vars

\* The submission specification: submitCode has validated the request and
\* loaded the problem, and calls runTestCases. A stored problem holds at
\* least one test case (the validator of testCases in Problem.js).
SubmitInit ==
    /\ JudgeInit
    /\ testCases # <<>>
    /\ variant = "simple"
    /\ language \in SupportedLanguages
    /\ code = MainSource
    /\ problem \in ProblemPool
    /\ doc = problem

\* the steps of a SimpleCodeExecutor.executeCode call
SubmitStep(i) ==
    \/ ExecuteCode_Mkdir(i)
    \/ ExecuteScript_Write(i)
    \/ ExecuteJava_Write(i)
    \/ ExecuteJava_Compile(i)
    \/ Execute_Run(i)
    \/ ExecuteCode_Rm(i)
    \/ Orphan_Exit(i)

SubmitNext ==
    \/ RunTestCases_Enter
    \/ RunTestCases_Loop
    \/ RunTestCases_Await
    \/ RunTestCases_Return
    \/ \E i \in ExecIds : SubmitStep(i)
    \/ SubmitCode_Judged
    \/ SubmitCode_Saved

SubmitSpec == SubmitInit /\ [][SubmitNext]_vars

\* The callers specification: runTestCases is called on any sequence of
\* test cases, the empty one included, by a caller of its own (reqs is
\* empty), or by submitCode on the test cases of a stored problem (reqs
\* holds the request).
Submission ==
    [Request("submitCode", Body(<<"p1">>, <<MainSource>>, <<"javascript">>))
        EXCEPT !.pc = "judge", !.looked = TRUE]

CallersInit ==
    /\ variant = "simple"
    /\ language = "javascript"
    /\ testCases \in SeqsUpTo(TestCasePool, MaxCases)
    /\ pc = "start"
    /\ idx = 0
    /\ results = <<>>
    /\ shouldContinue = TRUE
    /\ summary = <<>>
    /\ exec = [i \in ExecIds |-> NotCalled]
    /\ dirs = {}
    /\ timers = {}
    /\ rmTried = {}
    /\ rmLog = {}
    /\ child = [i \in ExecIds |-> NoChild]
    /\ code = MainSource
    /\ problem \in ProblemPool
    /\ doc = problem
    /\ response = <<>>
    /\ reqs \in {<<>>, << Submission >>}
    /\ reqs # <<>> => testCases # <<>>
    /\ previous = <<>>

\* the return value goes back to submitCode, when submitCode is the caller
Callers_Judged == reqs # <<>> /\ SubmitCode_Judged

CallersStep(i) ==
    \/ ExecuteCode_Mkdir(i)
    \/ ExecuteScript_Write(i)
    \/ Execute_Run(i)
    \/ ExecuteCode_Rm(i)
    \/ Orphan_Exit(i)

CallersNext ==
    \/ RunTestCases_Enter
    \/ RunTestCases_Loop
    \/ RunTestCases_Await
    \/ RunTestCases_Return
    \/ \E i \in ExecIds : CallersStep(i)
    \/ Callers_Judged
    \/ SubmitCode_Saved

CallersSpec == CallersInit /\ [][CallersNext]_vars

\* The runCode specification: runCode has validated the request and loaded
\* an active problem, which holds at least one test case and at most
\* MaxCases visible ones.
RunCodeInit ==
    /\ variant = "simple"
    /\ language \in SupportedLanguages
    /\ testCases = <<>>
    /\ pc = "found"
    /\ idx = 0
    /\ results = <<>>
    /\ shouldContinue = TRUE
    /\ summary = <<>>
    /\ exec = [i \in ExecIds |-> NotCalled]
    /\ dirs = {}
    /\ timers = {}
    /\ rmTried = {}
    /\ rmLog = {}
    /\ child = [i \in ExecIds |-> NoChild]
    /\ code = MainSource
    /\ problem = Stats(0, 0, 0)
    /\ \E cases \in SeqsUpTo(TestCasePool, MaxCases + 1) :
          /\ cases # <<>>
          /\ Len(Visible(cases)) <= MaxCases
          /\ doc = Document(problem, cases)
    /\ response = <<>>
    /\ reqs = <<>>
    /\ previous = <<>>

RunCodeNext ==
    \/ RunCode_Filter
    \/ RunTestCases_Enter
    \/ RunTestCases_Loop
    \/ RunTestCases_Await
    \/ RunTestCases_Return
    \/ \E i \in ExecIds : SubmitStep(i)
    \/ RunCode_Judged

RunCodeSpec == RunCodeInit /\ [][RunCodeNext]_vars

\* The repetition specification: the same request is run twice in a row on
\* a program that tells whether its working directory is the only entry of
\* tempDir, `console.log(fs.readdirSync('..').length === 1 ? 'a' : 'b')`.
\* The directories of the second run get fresh random names: those the
\* first run left are renamed apart.
ProbeSource == <<"readdirSync", " ", "..">>

ProbeBehaviours ==
    { Behaviour(IF Cardinality(dirs) = 1 THEN <<"a">> ELSE <<"b">>,
                <<>>, <<0>>) }

Probe_Run(i) == RunStep(i, Elapsed, ProbeBehaviours)

Renamed(S) == {i + MaxCases : i \in S}

\* no file operation has failed: no executeCode call of the current run
\* threw and no removal of a directory failed
Faultless ==
    /\ \A i \in ExecIds : child[i].thrown = <<>>
    /\ rmLog = {}

\* what the caller keeps of a return value
Outcome ==
    [summary |-> summary[1],
     passed |-> [k \in 1..Len(results) |-> results[k].passed],
     faultless |-> Faultless]

\* runTestCases has returned and the caller calls it again with the same
\* arguments
Repeat_Again ==
    /\ pc = "done"
    /\ previous = <<>>
    /\ previous' = << Outcome >>
    /\ pc' = "start"
    /\ idx' = 0
    /\ results' = <<>>
    /\ shouldContinue' = TRUE
    /\ summary' = <<>>
    /\ exec' = [i \in ExecIds |-> NotCalled]
    /\ child' = [i \in ExecIds |-> NoChild]
    /\ dirs' = Renamed(dirs)
    /\ timers' = Renamed(timers)
    /\ rmTried' = Renamed(rmTried)
    /\ rmLog' = Renamed(rmLog)
    /\ UNCHANGED <<variant, language, testCases, code, problem, doc,
                   response, reqs>>

RepeatInit ==
    /\ JudgeInit
    /\ language = "javascript"
    /\ testCases # <<>>
    /\ \A k \in DOMAIN testCases : testCases[k].input = <<"1">>
    /\ code = ProbeSource
    /\ problem = Stats(0, 0, 0)
    /\ doc = problem

RepeatStep(i) ==
    \/ ExecuteCode_Mkdir(i)
    \/ ExecuteScript_Write(i)
    \/ Execute_WriteInput(i)
    \/ Probe_Run(i)
    \/ ExecuteCode_Rm(i)
    \/ CleanupDirectory_Timer(i)

RepeatNext ==
    \/ RunTestCases_Enter
    \/ RunTestCases_Loop
    \/ RunTestCases_Await
    \/ RunTestCases_Return
    \/ Repeat_Again
    \/ \E i \in ExecIds : RepeatStep(i)
    \/ \E j \in Renamed(ExecIds) : CleanupDirectory_Timer(j)

RepeatSpec == RepeatInit /\ [][RepeatNext]_vars

\* The controller specification: NumRequests requests for the three
\* handlers, handled concurrently, on the stored statistics of p1.
ControllerInit ==
    /\ variant = "simple"
    /\ language = "javascript"
    /\ testCases = <<>>
    /\ pc = "start"
    /\ idx = 0
    /\ results = <<>>
    /\ shouldContinue = TRUE
    /\ summary = <<>>
    /\ exec = [i \in ExecIds |-> NotCalled]
    /\ dirs = {}
    /\ timers = {}
    /\ rmTried = {}
    /\ rmLog = {}
    /\ child = [i \in ExecIds |-> NoChild]
    /\ code = MainSource
    /\ doc = StoredAtStart
    /\ response = <<>>
    /\ problem = StoredAtStart
    /\ previous = <<>>
    /\ reqs \in [ReqIds -> {Request(k, b) : k \in Handlers, b \in BodyPool}]

ControllerStep(r) ==
    \/ Handler_Validate(r)
    \/ Handler_Found(r)
    \/ Handler_Judged(r)
    \/ Handler_Executed(r)
    \/ Handler_Saved(r)

ControllerNext == \E r \in ReqIds : ControllerStep(r)

ControllerSpec == ControllerInit /\ [][ControllerNext]_vars

-----------------------------------------------------------------------------
(* Properties of runTestCases *)

Returned(i) == exec[i].pc = "returned"

ExecResult(i) == exec[i].result[1]

Called(i) == exec[i].pc # "none"

\* executeCode calls that have been made and have not settled
InFlight == {i \in ExecIds : exec[i].pc \notin {"none", "returned", "rejected"}}

PassedAmong(k) == Cardinality({j \in 1..k : results[j].passed})

\* C1: once executeCode has returned success = false for test case i, no
\* later test case is executed (executeCode is never called for one), and
\* the TestResult of case i is the last entry results ever gets.
C1_FailFast ==
    \A i \in ExecIds :
        (Returned(i) /\ ~ExecResult(i).success) =>
            /\ \A j \in ExecIds : j > i => ~Called(j)
            /\ Len(results) <= i
            /\ pc \in {"summary", "done"} =>
                  /\ Len(results) = i
                  /\ results[i].input = testCases[i].input
                  /\ ~results[i].passed

C1_Witness ==
    /\ pc = "done"
    /\ Len(testCases) = 2
    /\ Returned(1) /\ ~ExecResult(1).success
    /\ Len(results) = 1
    /\ ~Called(2)

\* C2: when runTestCases has returned and every execution it made returned
\* success = true, all n test cases were executed and results has exactly n
\* entries, however many of them have passed = false.
C2_WrongAnswersContinue ==
    ( /\ pc = "done"
      /\ \A i \in ExecIds : Called(i) => (Returned(i) /\ ExecResult(i).success) )
    => /\ Len(results) = Len(testCases)
       /\ \A i \in 1..Len(testCases) : Returned(i)

C2_Witness ==
    /\ pc = "done"
    /\ Len(testCases) = 2
    /\ Len(results) = 2
    /\ ExecResult(1).success /\ ExecResult(2).success
    /\ ~results[1].passed /\ ~results[2].passed

\* C3: when case k is the first whose execution returned success = false,
\* the returned results has exactly k entries, summary.total = n and
\* summary.failed = n - (number of passed results among the first k).
C3_FailFastSummary ==
    pc = "done" =>
        \A k \in 1..Len(testCases) :
            ( /\ Returned(k) /\ ~ExecResult(k).success
              /\ \A j \in 1..(k - 1) : Returned(j) /\ ExecResult(j).success )
            => /\ Len(results) = k
               /\ summary[1].total = Len(testCases)
               /\ summary[1].failed = Len(testCases) - PassedAmong(k)

C3_Witness ==
    /\ pc = "done"
    /\ Len(testCases) = 2
    /\ Returned(1) /\ ~ExecResult(1).success
    /\ Len(results) = 1
    /\ summary[1].total = 2
    /\ summary[1].failed = 2

\* C4: in every return value of runTestCases, complete or cut short,
\* summary.total is the length of the input list, summary.passed the number
\* of results with passed = true, summary.failed = total - passed, and
\* summary.allPassed is true exactly when passed = total.
C4_Summary ==
    pc = "done" =>
        /\ Len(summary) = 1
        /\ summary[1].total = Len(testCases)
        /\ summary[1].passed = PassedAmong(Len(results))
        /\ summary[1].failed = summary[1].total - summary[1].passed
        /\ summary[1].allPassed = (summary[1].passed = summary[1].total)

C4_Witness ==
    /\ pc = "done"
    /\ Len(testCases) = 2
    /\ Len(results) = 1
    /\ summary[1] = [total |-> 2, passed |-> 0, failed |-> 2, allPassed |-> FALSE]

\* C5: a TestResult has passed = true iff the execution returned
\* success = true and the trimmed actual output equals the trimmed expected
\* output; an execution with success = false never yields passed = true.
C5_Passed ==
    \A i \in 1..Len(results) :
        /\ results[i].passed =
              ( /\ ExecResult(i).success
                /\ Trim(results[i].actualOutput) = Trim(testCases[i].expectedOutput) )
        /\ ~ExecResult(i).success => ~results[i].passed

\* passed although expected and actual differ before trimming, and a failed
\* execution whose output matches
C5_Witness ==
    /\ Len(results) = 2
    /\ results[1].passed
    /\ results[1].actualOutput # results[1].expectedOutput
    /\ ~ExecResult(2).success
    /\ Trim(results[2].actualOutput) = Trim(results[2].expectedOutput)
    /\ ~results[2].passed

\* C6: at every point of a run, results is the position-wise image of a
\* prefix of testCases: entry i carries input, expectedOutput and isHidden
\* of testCases[i].
C6_InputOrder ==
    /\ Len(results) <= Len(testCases)
    /\ \A i \in 1..Len(results) :
          /\ results[i].input = testCases[i].input
          /\ results[i].expectedOutput = testCases[i].expectedOutput
          /\ results[i].isHidden = testCases[i].isHidden

C6_Witness ==
    /\ Len(results) = 2
    /\ testCases[1].input # testCases[2].input
    /\ results[1].isHidden # results[2].isHidden

\* C7: at most one executeCode call of a run is in flight at any time, and
\* the call for test case i+1 is made only after the call for test case i
\* has returned.
C7_Sequential ==
    /\ Cardinality(InFlight) <= 1
    /\ \A i \in ExecIds :
          (i > 1 /\ Called(i)) => Returned(i - 1)

C7_Witness ==
    /\ Returned(1)
    /\ exec[2].pc = "run"

-----------------------------------------------------------------------------
(* Properties of executeCode and of the workspace directory *)

WellFormed(r) ==
    /\ DOMAIN r = {"success", "output", "error", "executionTime"}
    /\ r.success \in BOOLEAN
    /\ DOMAIN r.output = 1..Len(r.output)
    /\ DOMAIN r.error = 1..Len(r.error)
    /\ r.executionTime \in Nat

\* C8: executeCode never rejects. Whatever fails (directory creation, file
\* writing, compilation, the run, the removal), a call that is in flight can
\* always take its next step, a settled call has returned, and what it
\* returned is a result with success, output, error and executionTime.
C8_NeverRejects ==
    /\ pc # "rejected"
    /\ \A i \in ExecIds :
          /\ exec[i].pc # "rejected"
          /\ i \in InFlight => ENABLED ExecStep(i)
          /\ Returned(i) =>
                /\ Len(exec[i].result) = 1
                /\ WellFormed(ExecResult(i))

\* a call whose source file could not be written and whose directory could
\* not be removed has returned all the same
C8_Witness ==
    \E i \in ExecIds :
        /\ Returned(i)
        /\ ExecResult(i) = Result(FALSE, <<>>, <<"ENOSPC">>, 0)
        /\ i \in rmLog

\* the exit path of call i is over: the call has settled and no removal of
\* its directory is running or pending
ExitPathOver(i) ==
    /\ exec[i].pc \in {"returned", "rejected"}
    /\ i \notin timers

\* C9 as stated: every directory executeCode created has been removed once
\* the exit path of the call is over (nothing removes it later).
C9_AlwaysRemoved ==
    \A i \in ExecIds : ExitPathOver(i) => i \notin dirs

\* C9 amended: on every exit path the removal of a created directory is
\* eventually carried out: the directory is eventually gone, or its removal
\* has failed and the failure is logged.
C9_RemovalEventuallyRuns ==
    \A i \in ExecIds :
        (i \in dirs) ~> (i \in rmTried /\ (i \notin dirs \/ i \in rmLog))

\* the directory of a call that ended in the catch block (unsupported
\* language, thrown after mkdir) has been removed
C9_Witness ==
    \E i \in ExecIds :
        /\ Returned(i)
        /\ ExecResult(i).error = <<"Unsupported language: ", language>>
        /\ i \in rmTried
        /\ i \notin dirs
        /\ i \notin rmLog

\* C10 as stated: whenever an executeCode call has returned, its directory
\* no longer exists.
C10_NeverOutlives ==
    \A i \in ExecIds : Returned(i) => i \notin dirs

\* C10 amended: when a SimpleCodeExecutor.executeCode call has returned, the
\* removal of its directory has run, and the directory no longer exists
\* unless that removal failed and was logged. When an
\* InContainerCodeExecutor.executeCode call has returned, the removal is
\* scheduled on a timer or has run, and the directory may still exist.
C10_RemovedOrScheduled ==
    \A i \in ExecIds :
        Returned(i) =>
            IF variant = "simple"
            THEN /\ i \in rmTried
                 /\ i \notin timers
                 /\ i \in dirs => i \in rmLog
            ELSE /\ i \in timers \/ i \in rmTried
                 /\ (i \in dirs /\ i \notin timers) => i \in rmLog

\* a SimpleCodeExecutor call that ran the program has returned and its
\* directory is gone
C10_Witness ==
    \E i \in ExecIds :
        /\ variant = "simple"
        /\ Returned(i)
        /\ ExecResult(i).success
        /\ i \in rmTried
        /\ i \notin dirs

-----------------------------------------------------------------------------
(* Properties of the child processes *)

\* C11: when executeCode is called with a language outside {javascript,
\* python, java}, no workspace directory is created for that call: the
\* unsupported-language failure comes before any workspace I/O.
C11_NoDirectoryForUnsupported ==
    language \notin SupportedLanguages => dirs = {}

\* the last child process of call i was ended because the timeout expired
TimedOut(i) ==
    \/ child[i].run # <<>> /\ child[i].run[1].cause = "timeout"
    \/ /\ child[i].run = <<>>
       /\ child[i].compile # <<>>
       /\ child[i].compile[1].cause = "timeout"

TimeoutResult ==
    Result(FALSE, <<>>, <<"Execution timed out">>, EXECUTION_TIMEOUT)

\* C12: whenever a child process is terminated because the wall-clock
\* timeout expired, the execution result is exactly success=false, output
\* empty, error "Execution timed out" and executionTime equal to the
\* configured timeout.
C12_TimeoutResult ==
    \A i \in ExecIds :
        (TimedOut(i) /\ exec[i].pc \in {"rm", "returned"}) =>
            exec[i].result = << TimeoutResult >>

\* an InContainerCodeExecutor call has returned whose program was ended by
\* the timeout command (exit code 124, exec's own kill not involved)
C12_Witness ==
    \E i \in ExecIds :
        /\ Returned(i)
        /\ variant = "container"
        /\ child[i].run # <<>>
        /\ child[i].run[1].cause = "timeout"
        /\ ~child[i].run[1].killed

\* C13: after an execution has returned a timeout result, no process of
\* that execution (the shell started by exec, the interpreter or JVM under
\* it, anything they spawned) is still running.
C13_NoProcessAfterTimeout ==
    \A i \in ExecIds :
        (Returned(i) /\ ExecResult(i) = TimeoutResult) => ~child[i].orphan

\* C14: an execution whose child processes run longer than the configured
\* timeout returns the timeout failure, and no returned result reports an
\* executionTime greater than the configured timeout plus slack, also for
\* Java (compile and run timed separately) and for the in-container
\* deadlines ceil(timeout/1000) s and timeout + 1000 ms.
C14_WithinTimeout ==
    \A i \in ExecIds :
        Returned(i) =>
            /\ ExecResult(i).executionTime <= EXECUTION_TIMEOUT + TIMEOUT_SLACK
            /\ child[i].elapsed > EXECUTION_TIMEOUT =>
                   ExecResult(i) = TimeoutResult

\* the program of call i wrote more than the maximum output size
Overflowed(i) ==
    child[i].run # <<>> /\ child[i].run[1].cause = "maxBuffer"

C16_StdinIsInput ==
    \A i \in ExecIds :
        child[i].stdin # <<>> =>
            child[i].stdin[1] = [data |-> testCases[i].input, closed |-> TRUE]

\* the run command of call i exited with code 0 before any timeout
NormalExit(i) ==
    /\ exec[i].pc \in {"rm", "returned"}
    /\ child[i].run # <<>>
    /\ child[i].run[1].cause = "exit"
    /\ child[i].run[1].code = 0

\* C17: on normal process exit (exit code 0, no timeout) success is true
\* only if the captured stderr is empty (SimpleCodeExecutor), or only if it
\* is empty or does not contain "Error" (InContainerCodeExecutor); output
\* is the trimmed stdout and error the trimmed stderr. The code makes
\* success true exactly in those cases.
C17_NormalExit ==
    \A i \in ExecIds :
        NormalExit(i) =>
            LET p == child[i].run[1]
                r == ExecResult(i)
                hasError == \E k \in 1..Len(p.stderr) : p.stderr[k] = "Error"
            IN  /\ r.output = Trim(p.stdout)
                /\ r.error = Trim(p.stderr)
                /\ r.executionTime = child[i].elapsed
                /\ variant = "simple" => (r.success <=> p.stderr = <<>>)
                /\ variant = "container" =>
                       (r.success <=> (p.stderr = <<>> \/ ~hasError))

\* a program that exited 0 having written a warning to stderr has
\* returned: a failure in SimpleCodeExecutor, a success in
\* InContainerCodeExecutor
C17_Witness ==
    \E i \in ExecIds :
        /\ NormalExit(i)
        /\ Returned(i)
        /\ child[i].run[1].stderr = <<"warn", "\n">>
        /\ ExecResult(i).success <=> variant = "container"

\* C18 as stated: whenever the adapter or the process runner raises an
\* exception during executeCode (compile failure, spawn failure, non-zero
\* exit, file write failure), the returned result is success=false with the
\* exception's message as error and executionTime exactly 0.
C18_ExceptionResult ==
    \A i \in ExecIds :
        (Returned(i) /\ child[i].thrown # <<>>) =>
            ExecResult(i) =
                Result(FALSE, <<>>, child[i].thrown[1].message, 0)

\* C18 amended: an exception raised outside the adapters' own try block
\* (fs.mkdir failure, unsupported language, failure to write the source
\* file) returns success=false, empty output, the exception's message as
\* error and executionTime 0. An exception raised inside it (compile
\* failure, non-zero exit, spawn failure, failure to write the input file)
\* returns success=false with a non-empty error, and either the timeout
\* result or the measured executionTime.
C18_CaughtExceptions ==
    \A i \in ExecIds :
        (Returned(i) /\ child[i].thrown # <<>>) =>
            LET x == child[i].thrown[1]
                r == ExecResult(i)
            IN  IF x.at = "executeCode"
                THEN r = Result(FALSE, <<>>, x.message, 0)
                ELSE /\ ~r.success
                     /\ r.error # <<>>
                     /\ r = TimeoutResult \/ r.executionTime = child[i].elapsed

\* a call has returned after the write of its source file failed
C18_Witness ==
    \E i \in ExecIds :
        /\ Returned(i)
        /\ child[i].thrown = Thrown(<<"ENOSPC">>, "executeCode")
        /\ ExecResult(i).executionTime = 0

-----------------------------------------------------------------------------
(* Properties of submitCode *)

HiddenFields == {"passed", "error", "executionTime", "isHidden"}

\* C20: in the submitCode response every result of a hidden test case
\* exposes only passed, error, executionTime and isHidden, with the values
\* of the judge's result: its input, expectedOutput and actualOutput are not
\* in the response. Results of visible cases are returned in full. A
\* response that is not the 200 response carries no results.
C20_HiddenRedacted ==
    response # <<>> =>
        LET body == response[1].body
        IN  IF response[1].status = 200
            THEN /\ Len(body.results) = Len(results)
                 /\ \A k \in 1..Len(results) :
                        IF testCases[k].isHidden
                        THEN /\ DOMAIN body.results[k] = HiddenFields
                             /\ body.results[k].isHidden
                             /\ \A f \in HiddenFields \ {"isHidden"} :
                                    body.results[k][f] = results[k][f]
                        ELSE body.results[k] = results[k]
            ELSE DOMAIN body = {"message"}

\* a 200 response has been sent for a submission with a visible and a
\* hidden test case, both executed
C20_Witness ==
    /\ response # <<>>
    /\ response[1].status = 200
    /\ \E k \in 1..Len(results) : testCases[k].isHidden
    /\ \E k \in 1..Len(results) : ~testCases[k].isHidden

-----------------------------------------------------------------------------
(* Properties of executeJava *)

\* `public`, whitespace, `class`, whitespace and a word stand at k, c, n
DeclaresAt(src, k, c, n) ==
    /\ k < c /\ c < n /\ n <= Len(src)
    /\ src[k] \in {"public", "nonpublic"}
    /\ src[c] = "class"
    /\ src[n] \in Words
    /\ c > k + 1 /\ \A j \in (k + 1)..(c - 1) : src[j] \in Whitespace
    /\ n > c + 1 /\ \A j \in (c + 1)..(n - 1) : src[j] \in Whitespace

\* name is what the claim says extractJavaClassName returns for src
IsClassNameOf(name, src) ==
    LET P == 1..Len(src)
    IN  \/ /\ ~ \E k, c, n \in P : DeclaresAt(src, k, c, n)
           /\ name = "Solution"
        \/ \E k, c, n \in P :
              /\ DeclaresAt(src, k, c, n)
              /\ name = src[n]
              /\ ~ \E k2, c2, n2 \in P : k2 < k /\ DeclaresAt(src, k2, c2, n2)

\* C21: extractJavaClassName returns the identifier following the first
\* occurrence of `public class` followed by an identifier, and "Solution"
\* when there is none; executeJava writes the source to <ClassName>.java,
\* compiles that file and runs that class.
C21_JavaClassName ==
    \A i \in ExecIds :
        LET c == child[i]
        IN  /\ c.sourceFile # <<>> =>
                /\ Len(c.sourceFile[1]) = 2
                /\ c.sourceFile[1][2] = ".java"
                /\ IsClassNameOf(c.sourceFile[1][1], code)
            /\ \A k \in 1..Len(c.commands) :
                /\ c.commands[k].prog \in {"javac", "java"}
                /\ c.commands[k].prog = "javac" =>
                       c.commands[k].arg = c.sourceFile[1]
                /\ c.commands[k].prog = "java" =>
                       c.commands[k].arg = << c.sourceFile[1][1] >>

\* a source declaring `public class Foo` before `public class Main` was
\* written to Foo.java, compiled, and class Foo was run
C21_Witness ==
    \E i \in ExecIds :
        /\ Returned(i)
        /\ \E k \in 1..Len(code) : code[k] = "Main"
        /\ child[i].sourceFile = << <<"Foo", ".java">> >>
        /\ child[i].commands =
               << Command("javac", <<"Foo", ".java">>),
                  Command("java", <<"Foo">>) >>

\* the java run command of call i was handed to exec
RunInvoked(i) ==
    \E k \in 1..Len(child[i].commands) : child[i].commands[k].prog = "java"

\* javac of call i did not exit successfully
CompileFailed(i) ==
    child[i].compile # <<>> /\ ~Resolved(child[i].compile[1])

\* C22 as stated: in executeJava the run step is started only after the
\* compile step has exited successfully; when javac exits non-zero or is
\* killed, the java command is never invoked and the result is a failed
\* execution carrying the compiler's message.
C22_CompilerMessage ==
    \A i \in ExecIds :
        /\ RunInvoked(i) =>
               child[i].compile # <<>> /\ Resolved(child[i].compile[1])
        /\ (Returned(i) /\ CompileFailed(i)) =>
               LET p == child[i].compile[1]
               IN  /\ ~RunInvoked(i)
                   /\ ~ExecResult(i).success
                   /\ ExecResult(i).error = OrElse(Trim(p.stderr), p.message)

\* C22 amended: the java command is invoked only after javac has exited
\* with code 0. When javac exits non-zero the java command is never invoked
\* and the result is a failed execution whose error is the compiler's
\* trimmed stderr (exec's message if that is empty); when javac is killed
\* at the timeout the java command is never invoked either and the result
\* is the timeout result, without the compiler's message.
C22_RunAfterCompile ==
    \A i \in ExecIds :
        /\ RunInvoked(i) =>
               /\ child[i].compile # <<>>
               /\ child[i].compile[1].cause = "exit"
               /\ child[i].compile[1].code = 0
        /\ (Returned(i) /\ CompileFailed(i)) =>
               LET p == child[i].compile[1]
               IN  /\ ~RunInvoked(i)
                   /\ child[i].run = <<>>
                   /\ ~ExecResult(i).success
                   /\ IF p.cause = "timeout"
                      THEN ExecResult(i) = TimeoutResult
                      ELSE /\ ExecResult(i).error =
                                  OrElse(Trim(p.stderr), p.message)
                           /\ ExecResult(i).output = Trim(p.stdout)

\* a call has returned whose javac exited with code 1
C22_Witness ==
    \E i \in ExecIds :
        /\ Returned(i)
        /\ CompileFailed(i)
        /\ child[i].compile[1].code = 1
        /\ ExecResult(i).error = <<"Error">>

-----------------------------------------------------------------------------
(* Properties of the TestResult records *)

WellFormedTestResult(tr) ==
    /\ DOMAIN tr = {"input", "expectedOutput", "actualOutput", "passed",
                    "error", "executionTime", "isHidden"}
    /\ tr.passed \in BOOLEAN
    /\ tr.isHidden \in BOOLEAN
    /\ tr.executionTime \in Nat
    /\ DOMAIN tr.input = 1..Len(tr.input)
    /\ DOMAIN tr.expectedOutput = 1..Len(tr.expectedOutput)
    /\ DOMAIN tr.actualOutput = 1..Len(tr.actualOutput)
    /\ DOMAIN tr.error = 1..Len(tr.error)

\* a completely filled summary
WellFormedSummary(sm) ==
    /\ DOMAIN sm = {"total", "passed", "failed", "allPassed"}
    /\ sm.total \in Nat
    /\ sm.passed \in Nat
    /\ sm.failed \in Nat
    /\ sm.allPassed \in BOOLEAN

\* C27: runTestCases never propagates a fault to its caller: it never rejects,
\* whatever failed in the executions it awaited; every TestResult it holds is
\* completely filled; and when it has completed it has returned a well-formed
\* {results, summary}, with one TestResult for each test case it executed.
C27_NoFaultPropagates ==
    /\ pc # "rejected"
    /\ \A j \in 1..Len(results) : WellFormedTestResult(results[j])
    /\ pc = "done" =>
          /\ Len(summary) = 1
          /\ WellFormedSummary(summary[1])
          /\ Len(results) = idx
          /\ Len(results) <= Len(testCases)

\* runTestCases has returned although its first execution threw and the
\* directory of that execution could not be removed
C27_Witness ==
    /\ pc = "done"
    /\ Len(results) = 1
    /\ Len(testCases) = 2
    /\ child[1].thrown # <<>>
    /\ 1 \in rmLog
    /\ ~results[1].passed
    /\ ~summary[1].allPassed

-----------------------------------------------------------------------------
(* Properties of the removal of the workspace directory *)

\* C24: a failure to remove the workspace directory is logged and never
\* raised: in the step in which the removal of call i fails, the result the
\* execution produced is kept as it is and the call is returned (it returns
\* in that step, or had returned before); no later step changes the result.
C24_RemovalFailureNotRaised ==
    [][\A i \in ExecIds :
          /\ (i \in rmLog' /\ i \notin rmLog) =>
                 /\ exec[i].result # <<>>
                 /\ exec'[i].result = exec[i].result
                 /\ exec'[i].pc = "returned"
          /\ exec[i].result # <<>> => exec'[i].result = exec[i].result]_vars

\* a SimpleCodeExecutor call whose program succeeded has returned that
\* result although its directory could not be removed
C24_Witness ==
    \E i \in ExecIds :
        /\ variant = "simple"
        /\ i \in rmLog
        /\ i \in dirs
        /\ Returned(i)
        /\ ExecResult(i).success

-----------------------------------------------------------------------------
(* Properties of the handlers of submissionController.js *)

\* the request carries no language the handlers accept
LanguageRefused(q) == \A l \in SupportedLanguages : q.body.language # << l >>

Responded(q, status) ==
    /\ q.pc = "responded"
    /\ q.response[1].status = status

\* C26: in submitCode, runCode and executeCustomInput a language other than
\* javascript, python and java is rejected with 400 before execution: for
\* such a request Problem.findById is never called, no document is loaded,
\* the executor is never invoked (so no workspace is asked for), the
\* statistics are never saved, and the response it gets is a 400.
C26_InvalidLanguageRejected ==
    \A r \in ReqIds :
        LanguageRefused(reqs[r]) =>
            /\ reqs[r].pc \in {"received", "responded"}
            /\ ~reqs[r].looked
            /\ reqs[r].loaded = <<>>
            /\ reqs[r].executions = 0
            /\ reqs[r].pc = "responded" => reqs[r].response[1].status = 400

\* a submitCode request in ruby has been answered with 400 while a request
\* in javascript went through the judge
C26_Witness ==
    \E r, o \in ReqIds :
        /\ reqs[r].kind = "submitCode"
        /\ reqs[r].body.language = <<"ruby">>
        /\ reqs[r].body.problemId = <<"p1">>
        /\ Responded(reqs[r], 400)
        /\ reqs[o].executions > 0
        /\ Responded(reqs[o], 200)

\* request r leaves `await problem.save()` in this step
SaveSettles(r) == reqs[r].pc = "save" /\ reqs'[r].pc = "responded"

\* C28 as stated: each submitCode call that reaches judging increases the
\* stored totalSubmissions by exactly 1 and the stored totalAccepted by 1 if
\* summary.allPassed and by 0 otherwise, and answers accepted =
\* summary.allPassed.
C28_CountsEveryJudgedCall ==
    [][\A r \in ReqIds :
          SaveSettles(r) =>
              LET q == reqs[r]
                  body == reqs'[r].response[1].body
              IN  /\ problem'.totalSubmissions = problem.totalSubmissions + 1
                  /\ problem'.totalAccepted =
                         problem.totalAccepted
                             + (IF q.allPassed[1] THEN 1 ELSE 0)
                  /\ "accepted" \in DOMAIN body
                  /\ body.accepted = q.allPassed[1]]_vars

\* C28 amended: when the save of a submitCode call that reached judging
\* succeeds, the stored totalSubmissions becomes the value its findById read
\* plus 1, the stored totalAccepted becomes the value read plus 1 if
\* summary.allPassed and is not written otherwise, and the answer is a 200
\* whose accepted flag equals summary.allPassed; when the save fails, the
\* stored counters are left as they are and the answer is a 500.
C28_CountsOnTheLoadedDocument ==
    [][\A r \in ReqIds :
          SaveSettles(r) =>
              LET q == reqs[r]
                  answer == reqs'[r].response[1]
              IN  \/ /\ answer.status = 200
                     /\ answer.body.accepted = q.allPassed[1]
                     /\ problem'.totalSubmissions =
                            q.loaded[1].totalSubmissions + 1
                     /\ problem'.totalAccepted =
                            IF q.allPassed[1]
                            THEN q.loaded[1].totalAccepted + 1
                            ELSE problem.totalAccepted
                  \/ /\ answer.status = 500
                     /\ problem' = problem]_vars

\* an accepted submission has been stored: four submissions, two accepted
C28_Witness ==
    \E r \in ReqIds :
        /\ reqs[r].kind = "submitCode"
        /\ Responded(reqs[r], 200)
        /\ reqs[r].response[1].body.accepted
        /\ reqs[r].loaded = << StoredAtStart >>
        /\ problem = Stats(4, 2, 50)

\* the submitCode calls whose save succeeded
Stored == {r \in ReqIds : reqs[r].kind = "submitCode" /\ Responded(reqs[r], 200)}

\* C29: after any interleaving of concurrent submitCode calls on the same
\* problem, the stored totalSubmissions has increased by the number of
\* calls that were judged and saved, and totalAccepted by the number of
\* those with allPassed.
C29_NoLostUpdate ==
    (\A r \in ReqIds : reqs[r].pc = "responded") =>
        /\ problem.totalSubmissions =
               StoredAtStart.totalSubmissions + Cardinality(Stored)
        /\ problem.totalAccepted =
               StoredAtStart.totalAccepted
                   + Cardinality({r \in Stored : reqs[r].allPassed[1]})

\* C30: in every state reachable by submitCode calls the stored statistics
\* satisfy 0 <= totalAccepted <= totalSubmissions and, whenever
\* totalSubmissions > 0, acceptanceRate =
\* round(100 * totalAccepted / totalSubmissions), in 0..100.
C30_StatsConsistent ==
    /\ 0 <= problem.totalAccepted
    /\ problem.totalAccepted <= problem.totalSubmissions
    /\ problem.totalSubmissions > 0 =>
          /\ problem.acceptanceRate =
                 RoundPercent(problem.totalAccepted, problem.totalSubmissions)
          /\ problem.acceptanceRate \in 0..100

-----------------------------------------------------------------------------
(* Properties of repeated runs *)

\* C25: running the identical (code, language, testCases) request twice on
\* a deterministic program yields identical summaries and identical
\* per-case passed flags: when no file operation of either run failed, the
\* second return value has the summary and the passed flags of the first.
C25_SameSummaryTwice ==
    (pc = "done" /\ previous # <<>> /\ previous[1].faultless /\ Faultless) =>
        /\ summary[1] = previous[1].summary
        /\ [k \in 1..Len(results) |-> results[k].passed] = previous[1].passed

-----------------------------------------------------------------------------
(* Properties of every return value of runTestCases *)

\* C31: every return value of runTestCases satisfies passed + failed =
\* total and 0 <= passed <= length(results) <= total; and allPassed = true
\* implies that every input test case was executed (length(results) =
\* total) and that every result has passed = true.
C31_SummaryBounds ==
    pc = "done" =>
        LET sm == summary[1]
        IN  /\ sm.passed + sm.failed = sm.total
            /\ 0 <= sm.passed
            /\ sm.passed <= Len(results)
            /\ Len(results) <= sm.total
            /\ sm.allPassed =>
                  /\ Len(results) = sm.total
                  /\ \A k \in 1..Len(testCases) : Returned(k)
                  /\ \A j \in 1..Len(results) : results[j].passed

\* a run of two test cases has returned allPassed = true
C31_Witness ==
    /\ pc = "done"
    /\ Len(testCases) = 2
    /\ Len(results) = 2
    /\ summary[1].allPassed
    /\ summary[1].passed = 2

\* C32: in the results of runTestCases every entry but the last comes from
\* an execution with success = true: at most one failed execution appears
\* in a run and it is the last entry.
C32_FailedExecutionIsLast ==
    /\ \A j \in 1..Len(results) :
          j < Len(results) => (Returned(j) /\ ExecResult(j).success)
    /\ Cardinality({j \in 1..Len(results) : ~ExecResult(j).success}) <= 1

\* a run has returned two results, the second one from a failed execution
C32_Witness ==
    /\ pc = "done"
    /\ Len(results) = 2
    /\ ExecResult(1).success
    /\ ~ExecResult(2).success
    /\ ~results[1].passed

-----------------------------------------------------------------------------
(* Properties of the timeout report *)

\* the wall-clock timeout of the run step of call i expired
RunTimedOut(i) == child[i].run # <<>> /\ child[i].run[1].cause = "timeout"

\* C33: a result with error "Execution timed out" is returned only when the
\* wall-clock timeout of the run step expired: not for a process killed for
\* its output size, not for a killed compile step, not for a program that
\* exits with code 124 on its own.
C33_TimeoutOnlyWhenExpired ==
    \A i \in ExecIds :
        ( /\ exec[i].result # <<>>
          /\ ExecResult(i).error = <<"Execution timed out">> )
        => RunTimedOut(i)

-----------------------------------------------------------------------------
(* Properties of the frame of the handlers *)

\* the handler answered without going on: a 4xx response
Refused(q) == q.pc = "responded" /\ q.response[1].status \in {400, 403, 404}

\* C35: the statistics of a problem change only through a submitCode call
\* that ran the judge: a step that changes them is the save of such a call.
\* runCode and executeCustomInput never save, and a submitCode call that is
\* refused (missing fields, invalid language, unknown or inactive problem,
\* language without starter code) has run no code and saves nothing.
C35_StatsOnlyBySubmitCode ==
    [][/\ problem' # problem =>
              \E r \in ReqIds :
                  /\ reqs[r].kind = "submitCode"
                  /\ reqs[r].pc = "save"
                  /\ reqs[r].executions > 0
                  /\ reqs'[r].pc = "responded"
       /\ \A r \in ReqIds :
              /\ reqs[r].kind # "submitCode" => reqs'[r].pc # "save"
              /\ (reqs[r].kind = "submitCode" /\ Refused(reqs'[r])) =>
                     /\ reqs'[r].executions = 0
                     /\ reqs[r].pc \in {"received", "find", "responded"}]_vars

\* a runCode call has run the judge and a submitCode call on the inactive
\* problem has been refused, the statistics being what they were
C35_Witness ==
    \E r, o \in ReqIds :
        /\ reqs[r].kind = "runCode"
        /\ Responded(reqs[r], 200)
        /\ reqs[r].executions > 0
        /\ reqs[o].kind = "submitCode"
        /\ Responded(reqs[o], 403)
        /\ problem = StoredAtStart

-----------------------------------------------------------------------------
(* Properties of runCode *)

\* the positions of the visible test cases in the problem document
VisibleAt == {m \in 1..Len(doc.testCases) : ~doc.testCases[m].isHidden}

\* the position of the k-th visible test case
KthVisible(k) ==
    CHOOSE m \in VisibleAt : Cardinality({x \in VisibleAt : x <= m}) = k

\* C34: runCode executes only the visible test cases of the problem, in
\* their original relative order: what runTestCases is given is the visible
\* cases in document order, no hidden case is executed or appears in the
\* response, summary.total counts the visible cases, and when the problem
\* has no visible case the request is answered with 400 and the executor is
\* never invoked.
C34_VisibleCasesOnly ==
    /\ pc \notin {"found"} =>
          IF VisibleAt = {}
          THEN /\ pc = "responded"
               /\ response[1].status = 400
               /\ testCases = <<>>
          ELSE /\ Len(testCases) = Cardinality(VisibleAt)
               /\ \A k \in 1..Len(testCases) :
                     testCases[k] = doc.testCases[KthVisible(k)]
    /\ VisibleAt = {} =>
          /\ \A i \in ExecIds : ~Called(i)
          /\ dirs = {}
          /\ results = <<>>
    /\ \A i \in ExecIds : Called(i) => ~testCases[i].isHidden
    /\ (response # <<>> /\ response[1].status = 200) =>
          /\ response[1].body.summary.total = Cardinality(VisibleAt)
          /\ \A j \in 1..Len(response[1].body.results) :
                /\ ~response[1].body.results[j].isHidden
                /\ response[1].body.results[j].input =
                       doc.testCases[KthVisible(j)].input

\* runCode has answered for a problem whose hidden test case stands between
\* two visible ones: two results, none of them the hidden case
C34_Witness ==
    /\ pc = "responded"
    /\ response[1].status = 200
    /\ Len(doc.testCases) = 3
    /\ doc.testCases[2].isHidden
    /\ doc.testCases[1].input # doc.testCases[3].input
    /\ Len(response[1].body.results) = 2
    /\ response[1].body.summary.total = 2

-----------------------------------------------------------------------------
(* Properties of the empty run *)

\* C36: runTestCases on an empty sequence of test cases executes nothing
\* and returns results = [] with summary {total: 0, passed: 0, failed: 0,
\* allPassed: true}; and a submission is answered as accepted only if at
\* least one test case was executed and every test case of the problem was
\* executed and passed.
C36_EmptyRunAndAcceptance ==
    /\ testCases = <<>> =>
          /\ \A i \in ExecIds : ~Called(i)
          /\ dirs = {}
          /\ results = <<>>
          /\ pc \in {"start", "loop", "summary", "done"}
          /\ pc = "done" =>
                summary = << [total |-> 0, passed |-> 0, failed |-> 0,
                              allPassed |-> TRUE] >>
    /\ (response # <<>> /\ response[1].status = 200
                        /\ response[1].body.accepted) =>
          /\ Len(results) >= 1
          /\ Len(results) = Len(testCases)
          /\ \A j \in 1..Len(results) :
                Returned(j) /\ ExecResult(j).success /\ results[j].passed

\* runTestCases has returned for the empty sequence
C36_Witness ==
    /\ pc = "done"
    /\ testCases = <<>>
    /\ results = <<>>
    /\ summary # <<>>
    /\ summary[1].allPassed
    /\ summary[1].total = 0

====
